---- MODULE Spec2Model ----
(***************************************************************************)
(* EPUB Chapter Splitter (src/app.py).                                     *)
(*                                                                         *)
(* A Python str is a sequence of Unicode code points.  The three functions *)
(* of the script are operators over such sequences; the module-level       *)
(* script (lines 83-106) is the state machine.                             *)
(***************************************************************************)
EXTENDS Integers, Sequences, FiniteSets, TLC

\* ------------------------------------------------------------ characters

\* '\n'
NL == 10
\* U+7B2C, the first character of the pattern of line 35
DI == 31532
\* U+7AE0, the character that closes the marker in the pattern of line 35
ZHANG == 31456

\* what str.strip() removes: the characters for which str.isspace() holds
Whitespace ==
    (9..13) \cup (28..32) \cup {133, 160, 5760} \cup (8192..8202)
        \cup {8232, 8233, 8239, 8287, 12288}

\* \d of a str pattern: decimal digits (ASCII and full-width forms)
IsDigit(c) == c \in (48..57) \cup (65296..65305)

\* ------------------------------------------------------------ str helpers

RECURSIVE Concat(_)
\* "".join(seqs)
Concat(seqs) ==
    IF seqs = <<>> THEN <<>> ELSE Head(seqs) \o Concat(Tail(seqs))

RECURSIVE LStrip(_)
LStrip(s) ==
    IF s # <<>> /\ Head(s) \in Whitespace THEN LStrip(Tail(s)) ELSE s

RECURSIVE RStrip(_)
RStrip(s) ==
    IF s # <<>> /\ s[Len(s)] \in Whitespace
    THEN RStrip(SubSeq(s, 1, Len(s) - 1))
    ELSE s

\* s.strip()
Strip(s) == RStrip(LStrip(s))

RECURSIVE Replace(_, _, _)
\* s.replace(chr(c), by)
Replace(s, c, by) ==
    IF s = <<>> THEN <<>>
    ELSE (IF Head(s) = c THEN by ELSE <<Head(s)>>) \o Replace(Tail(s), c, by)

RECURSIVE Decimal(_)
\* str(n) for n >= 0
Decimal(n) ==
    IF n < 10 THEN <<48 + n>> ELSE Decimal(n \div 10) \o <<48 + (n % 10)>>

\* ------------------------------------------------------------ the regex

RECURSIVE DigitsEnd(_, _)
\* \d+ is greedy: the first position at or after p that holds no digit
DigitsEnd(text, p) ==
    IF p <= Len(text) /\ IsDigit(text[p]) THEN DigitsEnd(text, p + 1) ELSE p

RECURSIVE LineEnd(_, _)
\* .* stops at '\n' (no DOTALL) and $ (MULTILINE) holds before '\n' or at the
\* end of the text: the first position at or after p that holds '\n', or Len+1
LineEnd(text, p) ==
    IF p <= Len(text) /\ text[p] # NL THEN LineEnd(text, p + 1) ELSE p

\* ^ without (?m): at the start of the text only
AtLineStartNoMultiline(text, p) == p = 1

\* ^ under (?m): at the start of the text or right after a '\n'
AtLineStart(text, p) == p = 1 \/ text[p - 1] = NL

\* the position after a match of  (?m)^(DI \d+ ZHANG .*)$  that starts at p,
\* or 0 when the pattern does not match at p
MatchEnd(text, p) ==
    IF p <= Len(text) /\ AtLineStart(text, p) /\ text[p] = DI
    THEN LET d == DigitsEnd(text, p + 1)
         IN  IF d > p + 1 /\ d <= Len(text) /\ text[d] = ZHANG
             THEN LineEnd(text, d + 1)
             ELSE 0
    ELSE 0

RECURSIVE ReSplitFrom(_, _, _)
\* re.split with one capture group, scanning from p; last is where the piece
\* that is still open starts
ReSplitFrom(text, p, last) ==
    IF p > Len(text) THEN <<SubSeq(text, last, Len(text))>>
    ELSE LET e == MatchEnd(text, p)
         IN  IF e > 0
             THEN <<SubSeq(text, last, p - 1), SubSeq(text, p, e - 1)>>
                      \o ReSplitFrom(text, e, e)
             ELSE ReSplitFrom(text, p + 1, last)

\* parts = re.split(pattern, text):
\* [pre_text, heading, content, heading, content, ...]
re_split(text) == ReSplitFrom(text, 1, 1)

\* ------------------------------------------------------------ split_into_chapters

\* "Intro"
Intro == <<73, 110, 116, 114, 111>>

\* the loop of lines 46-49 with parts[i] taken for the content as well
PairsOfOffByOne(parts) ==
    [k \in 1..((Len(parts) - 1) \div 2) |->
        [heading |-> Strip(parts[2 * k]), content |-> parts[2 * k]]]

\* the tuples appended by the loop of lines 46-49
PairsOf(parts) ==
    [k \in 1..((Len(parts) - 1) \div 2) |->
        [heading |-> Strip(parts[2 * k]),
         content |-> IF 2 * k + 1 <= Len(parts) THEN parts[2 * k + 1] ELSE <<>>]]

\* split_into_chapters without lines 41-43: text before the first marker is
\* dropped
split_without_intro(text) == PairsOf(re_split(text))

split_into_chapters(text) ==
    LET parts == re_split(text)
    IN  (IF Strip(parts[1]) # <<>>
         THEN <<[heading |-> Intro, content |-> parts[1]]>>
         ELSE <<>>) \o PairsOf(parts)

\* ------------------------------------------------------------ create_new_epub

\* "New EPUB with Chapters" (line 55)
NewTitle ==
    <<78, 101, 119, 32, 69, 80, 85, 66, 32, 119, 105, 116, 104, 32,
      67, 104, 97, 112, 116, 101, 114, 115>>
\* "Auto-generated" (line 56)
AutoGenerated ==
    <<65, 117, 116, 111, 45, 103, 101, 110, 101, 114, 97, 116, 101, 100>>
\* 'zh' (line 62)
Zh == <<122, 104>>
\* 'nav' (line 71)
Nav == <<110, 97, 118>>
\* "<h1>", "</h1>\n<p>", "</p><p>", "</p>" (line 64)
H1Open == <<60, 104, 49, 62>>
H1CloseP == <<60, 47, 104, 49, 62, 10, 60, 112, 62>>
PBreak == <<60, 47, 112, 62, 60, 112, 62>>
PClose == <<60, 47, 112, 62>>

\* re.fullmatch in place of re.match: the heading is the marker and no more
ReFullMatchMarker(heading) ==
    /\ Len(heading) >= 3
    /\ heading[1] = DI
    /\ heading[Len(heading)] = ZHANG
    /\ DigitsEnd(heading, 2) = Len(heading)

\* re.match(r"DI \d+ ZHANG", heading): the pattern at the start of heading
ReMatchMarker(heading) ==
    /\ Len(heading) >= 1
    /\ heading[1] = DI
    /\ LET d == DigitsEnd(heading, 2)
       IN  d > 2 /\ d <= Len(heading) /\ heading[d] = ZHANG

\* chap_title of line 61; idx counts from 0 (enumerate)
ChapTitle(idx, heading) ==
    IF ReMatchMarker(heading)
    THEN heading
    ELSE <<67, 104, 97, 112, 116, 101, 114, 32>> \o Decimal(idx)

\* file_name of line 62: f'chap_{idx}.xhtml'
FileName(idx) ==
    <<99, 104, 97, 112, 95>> \o Decimal(idx) \o <<46, 120, 104, 116, 109, 108>>

\* chapter_content of line 64
ChapterContent(heading, content) ==
    H1Open \o heading \o H1CloseP \o Replace(content, NL, PBreak) \o PClose

\* the epub.EpubHtml item of lines 62-65
EpubHtml(idx, chapter) ==
    [title     |-> ChapTitle(idx, chapter.heading),
     file_name |-> FileName(idx),
     lang      |-> Zh,
     content   |-> ChapterContent(chapter.heading, chapter.content)]

\* epub_chapters after the loop of lines 59-67
EpubChapters(chapters) ==
    [k \in 1..Len(chapters) |-> EpubHtml(k - 1, chapters[k])]

\* book.toc of line 70: the items themselves, named here by their file names
Toc(epub_chapters) ==
    [k \in 1..Len(epub_chapters) |-> epub_chapters[k].file_name]

\* line 71 with its operands in the other order: 'nav' comes last
SpineNavLast(epub_chapters) ==
    [k \in 1..Len(epub_chapters) |-> epub_chapters[k].file_name] \o <<Nav>>

\* book.spine of line 71
Spine(epub_chapters) ==
    <<Nav>> \o [k \in 1..Len(epub_chapters) |-> epub_chapters[k].file_name]

\* create_new_epub without line 56: no author is recorded
create_new_epub_no_author(chapters) ==
    LET epub_chapters == EpubChapters(chapters)
    IN  [title   |-> NewTitle,
         authors |-> <<>>,
         items   |-> epub_chapters,
         toc     |-> Toc(epub_chapters),
         spine   |-> Spine(epub_chapters)]

\* the book that create_new_epub writes out
create_new_epub(chapters) ==
    LET epub_chapters == EpubChapters(chapters)
    IN  [title   |-> NewTitle,
         authors |-> <<AutoGenerated>>,
         items   |-> epub_chapters,
         toc     |-> Toc(epub_chapters),
         spine   |-> Spine(epub_chapters)]

\* no book has been built
NoBook ==
    [title |-> <<>>, authors |-> <<>>, items |-> <<>>, toc |-> <<>>, spine |-> <<>>]

\* ------------------------------------------------------------ extract_text_from_epub

\* ebooklib's item types, the values item.get_type() returns
ITEM_IMAGE == 1
ITEM_STYLE == 2
ITEM_NAVIGATION == 4
ITEM_DOCUMENT == 9

\* a Python int, and the class object epub.EpubHtml
PyInt(n) == [kind |-> "int", val |-> n]
EpubHtmlClass == [kind |-> "class", val |-> 0]

\* a == b of Python for these values: an int never equals a class
PyEq(a, b) == a.kind = b.kind /\ a.val = b.val

\* item.get_type()
GetType(item) == PyInt(item.type)

RECURSIVE JoinWith(_, _)
\* sep.join(strs)
JoinWith(sep, strs) ==
    IF strs = <<>> THEN <<>>
    ELSE IF Len(strs) = 1 THEN strs[1]
    ELSE strs[1] \o sep \o JoinWith(sep, Tail(strs))

\* soup.get_text(separator="\n"): the text nodes of the part, joined by '\n'
GetText(item) == JoinWith(<<NL>>, item.nodes)

RECURSIVE ExtractFrom(_, _)
\* the loop of lines 20-25 over the remaining items, full_text so far
ExtractFrom(items, full_text) ==
    IF items = <<>> THEN full_text
    ELSE ExtractFrom(Tail(items),
                     IF PyEq(GetType(Head(items)), EpubHtmlClass)
                     THEN full_text \o GetText(Head(items)) \o <<NL>>
                     ELSE full_text)

extract_text_from_epub(epub_file) == ExtractFrom(epub_file.items, <<>>)

\* ------------------------------------------------------------ inputs

\* the longest buffer, in tokens, that Init draws
MaxTok == 4
\* the most parts a source container holds
MaxItems == 2

\* the pieces buffers are built from: a whole marker, and single characters
\* (49 and 50 are '1' and '2', 32 is ' ', 97 is 'a')
Tokens ==
    {<<DI, 49, ZHANG>>, <<DI>>, <<50>>, <<ZHANG>>, <<NL>>, <<32>>, <<97>>}

\* the example of the specification's section 8, item 6
ExampleText ==
    <<105, 110, 116, 114, 111, 32, 116, 101, 120, 116, 10,
      31532, 49, 31456, 32, 26631, 39064, 10,
      98, 111, 100, 121, 32, 111, 110, 101, 10,
      98, 111, 100, 121, 32, 116, 119, 111, 10,
      31532, 50, 31456, 10,
      98, 111, 100, 121, 32, 116, 104, 114, 101, 101>>

Buffers ==
    {ExampleText} \cup
    UNION {{Concat(f) : f \in [1..n -> Tokens]} : n \in 0..MaxTok}

\* the metadata of a source container: each field a list, empty when absent
SrcTitle == <<84>>
SrcAuthor == <<65>>
SrcLang == <<101, 110>>
Metas ==
    {[title |-> <<>>, authors |-> <<>>, language |-> <<>>],
     [title |-> <<SrcTitle>>, authors |-> <<SrcAuthor>>, language |-> <<SrcLang>>]}

\* the parts of a source container
ItemTypes == {ITEM_DOCUMENT, ITEM_IMAGE, ITEM_STYLE, ITEM_NAVIGATION}
NodeLists == {<<>>, <<<<97>>>>, <<<<32>>>>, <<<<DI, 49, ZHANG>>, <<97>>>>}
Items == [type : ItemTypes, nodes : NodeLists]
Containers ==
    {[meta |-> m, items |-> its] :
        m \in Metas,
        its \in UNION {[1..n -> Items] : n \in 0..MaxItems}}

\* ------------------------------------------------------------ the script

VARIABLES
    pc,             \* where the script of lines 83-106 stands
    uploaded_file,  \* the source container
    full_text,      \* line 85
    chapters,       \* line 93
    st_error,       \* st.error was shown (line 87)
    preview,        \* the text of the preview pane (line 90)
    summary,        \* what lines 94-98 wrote
    book,           \* what create_new_epub built (line 102)
    calls           \* the functions called so far, in call order

vars ==
    <<pc, uploaded_file, full_text, chapters, st_error, preview, summary,
      book, calls>>

\* full_text[:1000]
PreviewLen == 1000

\* not full_text: the test of line 86 without its strip()
IsEmptyText(text) == text = <<>>

\* not full_text.strip()
IsBlank(text) == Strip(text) = <<>>

NoSummary == [count |-> 0, headings |-> <<>>]

\* line 85
Extract ==
    /\ pc = "uploaded"
    /\ full_text' = extract_text_from_epub(uploaded_file)
    /\ calls' = Append(calls, "extract_text_from_epub")
    /\ pc' = "extracted"
    /\ UNCHANGED <<uploaded_file, chapters, st_error, preview, summary, book>>

\* lines 86-87
ReportNoText ==
    /\ pc = "extracted"
    /\ IsBlank(full_text)
    /\ st_error' = TRUE
    /\ pc' = "no_text"
    /\ UNCHANGED <<uploaded_file, full_text, chapters, preview, summary, book, calls>>

\* lines 88-90
ShowPreview ==
    /\ pc = "extracted"
    /\ ~IsBlank(full_text)
    /\ preview' = SubSeq(full_text, 1, IF Len(full_text) < PreviewLen
                                       THEN Len(full_text) ELSE PreviewLen)
    /\ pc' = "preview"
    /\ UNCHANGED <<uploaded_file, full_text, chapters, st_error, summary, book, calls>>

\* line 93
Split ==
    /\ pc = "preview"
    /\ chapters' = split_into_chapters(full_text)
    /\ calls' = Append(calls, "split_into_chapters")
    /\ pc' = "split"
    /\ UNCHANGED <<uploaded_file, full_text, st_error, preview, summary, book>>

\* lines 94-98
ShowSummary ==
    /\ pc = "split"
    /\ summary' = [count    |-> Len(chapters),
                   headings |-> [k \in 1..Len(chapters) |-> chapters[k].heading]]
    /\ pc' = "summary"
    /\ UNCHANGED <<uploaded_file, full_text, chapters, st_error, preview, book, calls>>

\* lines 101-106: the button is pressed.  A press reruns the script from its
\* top with the same upload: lines 85-98 run again and give what they gave,
\* then the book is built and offered.
ClickCreate ==
    /\ pc = "summary"
    /\ book' = create_new_epub(chapters)
    /\ calls' = calls \o <<"extract_text_from_epub", "split_into_chapters",
                           "create_new_epub">>
    /\ pc' = "created"
    /\ UNCHANGED <<uploaded_file, full_text, chapters, st_error, preview, summary>>

\* The script from line 86 on.  What line 85 returned is left open here: every
\* buffer of Buffers is tried, so that lines 86-106 and the two functions they
\* call are checked for every text.  What extract_text_from_epub itself
\* returns is the subject of ExtractSpec.
Init ==
    /\ pc = "extracted"
    /\ uploaded_file \in {[meta |-> m, items |-> <<>>] : m \in Metas}
    /\ full_text \in Buffers
    /\ chapters = <<>>
    /\ st_error = FALSE
    /\ preview = <<>>
    /\ summary = NoSummary
    /\ book = NoBook
    /\ calls = <<"extract_text_from_epub">>

Next == ReportNoText \/ ShowPreview \/ Split \/ ShowSummary \/ ClickCreate

Spec == Init /\ [][Next]_vars

\* The script from the upload on, for every container, with the extraction of
\* lines 15-26 as written.  The comparison of line 21 never holds, so the
\* buffer is always empty and line 87 is the only way on.
ExtractInit ==
    /\ pc = "uploaded"
    /\ uploaded_file \in Containers
    /\ full_text = <<>>
    /\ chapters = <<>>
    /\ st_error = FALSE
    /\ preview = <<>>
    /\ summary = NoSummary
    /\ book = NoBook
    /\ calls = <<>>

ExtractNext == Extract \/ ReportNoText

ExtractSpec == ExtractInit /\ [][ExtractNext]_vars

\* ------------------------------------------------------------ what the claims speak of

\* every character of text is white space (the empty text included)
AllWhitespace(text) == \A i \in 1..Len(text) : text[i] \in Whitespace

RECURSIVE LinesFrom(_, _, _)
LinesFrom(text, p, last) ==
    IF p > Len(text) THEN <<SubSeq(text, last, Len(text))>>
    ELSE IF text[p] = NL
         THEN <<SubSeq(text, last, p - 1)>> \o LinesFrom(text, p + 1, p + 1)
         ELSE LinesFrom(text, p + 1, last)

\* the lines of text: the pieces between its '\n' characters
Lines(text) == LinesFrom(text, 1, 1)

\* the line begins with DI, one or more digits, ZHANG
IsMarkerLine(line) ==
    \E d \in 3..Len(line) :
        /\ line[1] = DI
        /\ line[d] = ZHANG
        /\ \A j \in 2..(d - 1) : IsDigit(line[j])

\* the pattern DI, digits, ZHANG occurs in the line after its first character
HasMidLineMarker(line) ==
    \E p \in 2..Len(line) : IsMarkerLine(SubSeq(line, p, Len(line)))

\* the index of the first marker line, or one past the last line
FirstMarker(ls) ==
    IF \E k \in 1..Len(ls) : IsMarkerLine(ls[k])
    THEN CHOOSE k \in 1..Len(ls) :
            IsMarkerLine(ls[k]) /\ \A j \in 1..(k - 1) : ~IsMarkerLine(ls[j])
    ELSE Len(ls) + 1

\* the text before the first marker line is all white space
PreambleBlank(text) ==
    LET ls == Lines(text)
    IN  \A j \in 1..(FirstMarker(ls) - 1) : AllWhitespace(ls[j])

HasMarkerLine(text) ==
    \E k \in 1..Len(Lines(text)) : IsMarkerLine(Lines(text)[k])

\* the marker lines of text, in order, without their trailing white space
MarkerLines(text) ==
    LET ms == SelectSeq(Lines(text), IsMarkerLine)
    IN  [k \in 1..Len(ms) |-> RStrip(ms[k])]

\* text without the trailing white space of its marker lines and, when the
\* text before the first marker line is all white space, without that text
Normalized(text) ==
    LET ls   == Lines(text)
        from == IF PreambleBlank(text) THEN FirstMarker(ls) ELSE 1
        kept == SubSeq(ls, from, Len(ls))
    IN  JoinWith(<<NL>>,
                 [k \in 1..Len(kept) |->
                     IF IsMarkerLine(kept[k]) THEN RStrip(kept[k]) ELSE kept[k]])

\* the records the loop of lines 46-49 appended
MarkerRecords(chs) == SelectSeq(chs, LAMBDA c : c.heading # Intro)

Bodies(chs) == [k \in 1..Len(chs) |-> chs[k].content]

\* each record as text: its heading, unless it is the label Intro, and its body
RecordTexts(chs) ==
    [k \in 1..Len(chs) |->
        (IF chs[k].heading = Intro THEN <<>> ELSE chs[k].heading) \o chs[k].content]

RECURSIVE FindFrom(_, _, _)
\* the first position at or after p where pat occurs in s, or Len(s) + 1
FindFrom(s, p, pat) ==
    IF p + Len(pat) - 1 > Len(s) THEN Len(s) + 1
    ELSE IF SubSeq(s, p, p + Len(pat) - 1) = pat THEN p
    ELSE FindFrom(s, p + 1, pat)

RECURSIVE ParagraphsFrom(_, _)
\* the texts of the <p> elements of s from position p on
ParagraphsFrom(s, p) ==
    LET o == FindFrom(s, p, <<60, 112, 62>>)
    IN  IF o > Len(s) THEN <<>>
        ELSE LET c == FindFrom(s, o + 3, PClose)
             IN  <<SubSeq(s, o + 3, c - 1)>> \o ParagraphsFrom(s, c + 4)

Paragraphs(content) == ParagraphsFrom(content, 1)

\* the text of the <h1> element of a section
H1Text(content) ==
    SubSeq(content, 5, FindFrom(content, 5, <<60, 47, 104, 49, 62>>) - 1)

NonEmptyLines(text) == SelectSeq(Lines(text), LAMBDA l : l # <<>>)

Called(name) == \E i \in 1..Len(calls) : calls[i] = name

\* split_into_chapters has returned
AfterSplit == pc \in {"split", "summary", "created"}

\* ------------------------------------------------------------ claims

\* C1 as stated: the bodies of the returned records, concatenated in list
\* order, reproduce the buffer exactly.
C1_BodiesReproduceBuffer ==
    AfterSplit => Concat(Bodies(chapters)) = full_text

\* C1, amended: the records, each taken as its heading (the label Intro
\* excepted) followed by its body, concatenated in list order, reproduce the
\* buffer except for the trailing white space of heading lines and for text
\* before the first marker that is all white space; the bodies alone do not
\* hold the heading lines.
C1_RecordsReproduceBuffer ==
    AfterSplit => Concat(RecordTexts(chapters)) = Normalized(full_text)

\* a buffer with text before the first marker and a heading line that ends in
\* white space has been split
C1_Witness ==
    /\ AfterSplit
    /\ Len(chapters) >= 2
    /\ chapters[1].heading = Intro
    /\ Normalized(full_text) # full_text

\* C2: one marker-derived record for every line that begins with DI, digits,
\* ZHANG, in buffer order, its heading being that line; none for an
\* occurrence of the pattern that does not start a line.
C2_MarkerRecognition ==
    AfterSplit =>
        LET ms == MarkerRecords(chapters)
        IN  [k \in 1..Len(ms) |-> ms[k].heading] = MarkerLines(full_text)

\* a buffer with a marker line and, on a line that is no marker line, a
\* mid-line occurrence of the pattern has been split
C2_Witness ==
    /\ AfterSplit
    /\ Len(MarkerRecords(chapters)) >= 1
    /\ \E k \in 1..Len(Lines(full_text)) :
          /\ HasMidLineMarker(Lines(full_text)[k])
          /\ ~IsMarkerLine(Lines(full_text)[k])

\* C3 as stated: the example buffer yields ("Intro", "intro text"),
\* (heading 1, "body one\nbody two"), (heading 2, "body three"), and the book
\* built from them has exactly three sections in that order.
C3_EndToEndExample ==
    full_text = ExampleText =>
        /\ AfterSplit =>
              chapters =
                <<[heading |-> Intro, content |-> <<105, 110, 116, 114, 111, 32, 116, 101, 120, 116>>],
                  [heading |-> <<31532, 49, 31456, 32, 26631, 39064>>,
                   content |-> <<98, 111, 100, 121, 32, 111, 110, 101, 10, 98, 111, 100, 121, 32, 116, 119, 111>>],
                  [heading |-> <<31532, 50, 31456>>,
                   content |-> <<98, 111, 100, 121, 32, 116, 104, 114, 101, 101>>]>>
        /\ pc = "created" =>
              /\ Len(book.items) = 3
              /\ \A k \in 1..3 : H1Text(book.items[k].content) = chapters[k].heading

\* C4: a buffer with non-white-space text and no marker line yields exactly
\* one record, whose body is the whole buffer, and the script goes on to the
\* summary and to the rebuild with that record.
C4_NoMarkers ==
    (~AllWhitespace(full_text) /\ ~HasMarkerLine(full_text)) =>
        /\ pc # "no_text"
        /\ pc # "created" => ENABLED Next
        /\ AfterSplit =>
              /\ Len(chapters) = 1
              /\ chapters[1].content = full_text
        /\ pc \in {"summary", "created"} => summary.count = 1
        /\ pc = "created" =>
              /\ Len(book.items) = 1
              /\ Paragraphs(book.items[1].content) = Lines(full_text)

\* a book has been built from a buffer without marker lines
C4_Witness ==
    /\ pc = "created"
    /\ ~HasMarkerLine(full_text)
    /\ Len(book.items) = 1

SectionNames(b) == [k \in 1..Len(b.items) |-> b.items[k].file_name]

\* C5 as stated: one section per record, and the table of contents and the
\* spine each consist of exactly those sections, in record order.
C5_TocAndSpineAreTheSections ==
    pc = "created" =>
        /\ Len(book.items) = Len(chapters)
        /\ book.toc = SectionNames(book)
        /\ book.spine = SectionNames(book)

\* C5, amended: one section per record, in record order, under pairwise
\* distinct names; the table of contents consists of exactly those sections in
\* that order; the spine consists of the entry 'nav' followed by exactly those
\* sections in that order.
C5_TocAndSpineOrder ==
    pc = "created" =>
        /\ Len(book.items) = Len(chapters)
        /\ \A k \in 1..Len(chapters) :
              H1Text(book.items[k].content) = chapters[k].heading
        /\ \A j, k \in 1..Len(book.items) :
              book.items[j].file_name = book.items[k].file_name => j = k
        /\ book.toc = SectionNames(book)
        /\ book.spine = <<Nav>> \o SectionNames(book)

\* a book with two or more sections has been built
C5_Witness == pc = "created" /\ Len(chapters) >= 2

\* C6 as stated: the body of every section holds exactly one paragraph
\* element per non-empty line of the record's body, in line order, and no
\* empty paragraph element.
C6_ParagraphPerNonEmptyLine ==
    pc = "created" =>
        \A k \in 1..Len(chapters) :
            Paragraphs(book.items[k].content) = NonEmptyLines(chapters[k].content)

\* C7 as stated, in the case it singles out: a container with a document part
\* that holds non-white-space text yields a buffer that is not all white space.
C7_DocumentTextExtracted ==
    pc # "uploaded" =>
        ((\E i \in 1..Len(uploaded_file.items) :
             /\ uploaded_file.items[i].type = ITEM_DOCUMENT
             /\ ~AllWhitespace(GetText(uploaded_file.items[i])))
         => ~AllWhitespace(full_text))

\* C8: create_new_epub runs, and a book is offered, only after the extraction
\* returned a buffer with non-white-space text and split_into_chapters
\* returned; a run whose buffer is empty or all white space ends with the
\* 'no extractable text' message and runs neither function.
C8_StageOrdering ==
    /\ \A i \in 1..Len(calls) :
          calls[i] = "create_new_epub" =>
              /\ ~AllWhitespace(full_text)
              /\ \E j \in 1..(i - 1) :
                    /\ calls[j] = "split_into_chapters"
                    /\ \E h \in 1..(j - 1) : calls[h] = "extract_text_from_epub"
    /\ (pc = "created" \/ book # NoBook) => Called("create_new_epub")
    /\ Called("split_into_chapters") => ~AllWhitespace(full_text)
    /\ (AllWhitespace(full_text) /\ pc \notin {"uploaded", "extracted"}) =>
          /\ pc = "no_text"
          /\ st_error
          /\ book = NoBook
    /\ st_error => AllWhitespace(full_text)

\* a book has been built and offered
C8_Witness ==
    /\ pc = "created"
    /\ book # NoBook
    /\ calls[Len(calls)] = "create_new_epub"

\* 'Untitled'
Untitled == <<85, 110, 116, 105, 116, 108, 101, 100>>

C10_TitleHeadingConsistency ==
    pc = "created" =>
        /\ \A k \in 1..Len(chapters) :
              LET c  == chapters[k]
                  it == book.items[k]
              IN  /\ c.heading # Intro =>
                        /\ IsMarkerLine(c.heading)
                        /\ it.title = c.heading
                  /\ c.heading = Intro =>
                        /\ k = 1
                        /\ it.title = <<67, 104, 97, 112, 116, 101, 114, 32, 48>>
                        /\ H1Text(it.content) = Intro
        /\ (\E k \in 1..Len(chapters) : chapters[k].heading = Intro)
              <=> ~PreambleBlank(full_text)

\* a book has been built from an Intro record and a marker-derived record
\* whose heading line carries text after the marker
C10_Witness ==
    /\ pc = "created"
    /\ Len(chapters) >= 2
    /\ chapters[1].heading = Intro
    /\ \E d \in 3..(Len(chapters[2].heading) - 1) : chapters[2].heading[d] = ZHANG

====
